---- MODULE Spec2Model ----
(***************************************************************************)
(* A model of netvolmon: the device specification resolver (finddev.go),   *)
(* the counter-delta engine and the reporting loop (netvolmon.go).         *)
(* Go strings are TLA+ strings; a character is a string of length 1.       *)
(***************************************************************************)
EXTENDS Integers, Sequences, FiniteSets, TLC

VARIABLES
    pc,        \* where the program is: "main", "processLoop", "resolved",
               \* "loop", "exit" or "fatal"
    err,       \* which log.Fatal ended the program, "" while it runs
    cmd,       \* the command line as flag.Parse leaves it
    env,       \* what the platform reports: interfaces, hostname lookup,
               \* the first read of the counters
    args,      \* args of main, the devices of processLoop
    duration,  \* the duration variable, in seconds
    incLo,     \* the incLo variable
    exlist,    \* the exclusion list main hands to processLoop
    netinfo,   \* the global netinfo
    oldst,     \* processLoop's oldst
    dt,        \* the Deltas of the last cycle
    keys,      \* processLoop's keys
    trace,     \* per token of args: the matchers expandDevList evaluated
    printed,   \* the lines printDelta printed in the last cycle, in order
    now,       \* the clock time.Now() reads, in seconds
    call,      \* arguments of a pure function under check
    ret        \* its result

vars == <<pc, err, cmd, env, args, duration, incLo, exlist, netinfo, oldst,
          dt, keys, trace, printed, now, call, ret>>

progvars == <<pc, err, cmd, env, args, duration, incLo, exlist, netinfo,
              oldst, dt, keys, trace, printed, now>>

-----------------------------------------------------------------------------
(* Bounds of the model. *)

MaxCount == 2
MaxWhen == 1
MaxTokens == 2
MaxTime == 2

Counters == 0..MaxCount

-----------------------------------------------------------------------------
(* Strings. *)

Ch(s, i) == SubSeq(s, i, i)

\* The characters the model uses, in byte order.
Alphabet == "*,./0123456789abcdefghijklmnopqrstuvwxyz"

Ord(c) == CHOOSE i \in 1..Len(Alphabet) : Ch(Alphabet, i) = c

\* Go's < on strings: bytewise lexicographic.
StrLess(s, t) ==
    \E i \in 1..(Len(t)) :
        /\ \A j \in 1..(i - 1) : j <= Len(s) /\ Ch(s, j) = Ch(t, j)
        /\ \/ i = Len(s) + 1
           \/ i <= Len(s) /\ Ord(Ch(s, i)) < Ord(Ch(t, i))

HasPrefix(s, p) == Len(p) <= Len(s) /\ SubSeq(s, 1, Len(p)) = p

HasSuffix(s, p) ==
    Len(p) <= Len(s) /\ SubSeq(s, Len(s) - Len(p) + 1, Len(s)) = p

\* strings.Index, 0-based; -1 when sub does not occur in s.
RECURSIVE indexFrom(_, _, _)
indexFrom(s, sub, i) ==
    IF i + Len(sub) > Len(s) THEN -1
    ELSE IF SubSeq(s, i + 1, i + Len(sub)) = sub THEN i
    ELSE indexFrom(s, sub, i + 1)

Index(s, sub) == indexFrom(s, sub, 0)

\* strings.Split(s, sep) for a one-character sep.
RECURSIVE Split(_, _)
splitAt(s, sep, i) ==
    IF i < 0 THEN <<s>>
    ELSE <<SubSeq(s, 1, i)>> \o Split(SubSeq(s, i + 2, Len(s)), sep)

Split(s, sep) == splitAt(s, sep, Index(s, sep))

IsDigit(c) == c \in {"0", "1", "2", "3", "4", "5", "6", "7", "8", "9"}

DigitVal(c) == Ord(c) - Ord("0")

AllDigits(s) == Len(s) > 0 /\ \A i \in 1..Len(s) : IsDigit(Ch(s, i))

\* The value of a string of decimal digits.
RECURSIVE Atoi(_)
Atoi(s) ==
    IF Len(s) = 0 THEN 0
    ELSE 10 * Atoi(SubSeq(s, 1, Len(s) - 1)) + DigitVal(Ch(s, Len(s)))

Digit(n) == Ch("0123456789", n + 1)

\* Decimal form of a natural number.
RECURSIVE Itoa(_)
Itoa(n) == IF n < 10 THEN Digit(n) ELSE Itoa(n \div 10) \o Digit(n % 10)

Range(f) == {f[i] : i \in DOMAIN f}

-----------------------------------------------------------------------------
(* The string set of netvolmon.go and sort.Strings. *)

\* sort.Strings over the elements of a set of distinct strings.
RECURSIVE SortStrings(_)
SortStrings(S) ==
    IF S = {} THEN <<>>
    ELSE LET m == CHOOSE x \in S : \A y \in S \ {x} : StrLess(x, y)
         IN  <<m>> \o SortStrings(S \ {m})

add(s, dev) == s \cup {dev}

addlist(s, lst) == s \cup Range(lst)

remove(s, dev) == s \ {dev}

RECURSIVE Reverse(_)
Reverse(q) == IF q = <<>> THEN <<>> ELSE Append(Reverse(Tail(q)), Head(q))

\* members without the sort: the keys in some other order.
membersUnsorted(s) == Reverse(SortStrings(s))

members(s) == SortStrings(s)

isin(s, name) == name \in s

-----------------------------------------------------------------------------
(* The delta engine. *)

\* A DevStat.
DevStat(when, rb, tb, rp, tp) ==
    [When |-> when, RBytes |-> rb, TBytes |-> tb, RPackets |-> rp,
     TPackets |-> tp]

\* subChecked with the comparison made strict: equal counters count as a
\* rollover.
subCheckedStrict(a, b, good) ==
    IF a < b THEN <<b - a, good>> ELSE <<0, FALSE>>

\* subChecked that reports its own check and drops the running flag.
subCheckedForgetful(a, b, good) ==
    IF a <= b THEN <<b - a, TRUE>> ELSE <<0, FALSE>>

\* subChecked(a, b, good): the pair (difference, flag).
subChecked(a, b, good) ==
    IF a <= b THEN <<b - a, good>> ELSE <<0, FALSE>>

\* Delta that gives up at the first decreased counter and returns the zero
\* DevDelta.
DeltaStopsAtBad(o, n) ==
    IF \/ o.RBytes > n.RBytes \/ o.TBytes > n.TBytes
       \/ o.RPackets > n.RPackets \/ o.TPackets > n.TPackets
    THEN <<[Delta |-> 0, When |-> 0, RBytes |-> 0, TBytes |-> 0,
            RPackets |-> 0, TPackets |-> 0], FALSE>>
    ELSE <<[Delta |-> n.When - o.When, When |-> n.When,
            RBytes |-> n.RBytes - o.RBytes, TBytes |-> n.TBytes - o.TBytes,
            RPackets |-> n.RPackets - o.RPackets,
            TPackets |-> n.TPackets - o.TPackets], TRUE>>

\* Delta(oldst, newst): the pair (DevDelta, good).
Delta(o, n) ==
    LET rb == subChecked(o.RBytes, n.RBytes, TRUE)
        tb == subChecked(o.TBytes, n.TBytes, rb[2])
        rp == subChecked(o.RPackets, n.RPackets, tb[2])
        tp == subChecked(o.TPackets, n.TPackets, rp[2])
    IN  <<[Delta |-> n.When - o.When, When |-> n.When, RBytes |-> rb[1],
           TBytes |-> tb[1], RPackets |-> rp[1], TPackets |-> tp[1]],
          tp[2]>>

\* genDeltas that keeps a delta whatever its flag.
genDeltasKeepBad(oldinfo, newinfo) ==
    LET kept == {d \in DOMAIN newinfo :
                    /\ newinfo[d].RBytes # 0
                    /\ d \in DOMAIN oldinfo}
    IN  [d \in kept |-> Delta(oldinfo[d], newinfo[d])[1]]

\* genDeltas that keeps a device when its received bytes did not decrease,
\* whatever the other counters did.
genDeltasPartial(oldinfo, newinfo) ==
    LET kept == {d \in DOMAIN newinfo :
                    /\ newinfo[d].RBytes # 0
                    /\ d \in DOMAIN oldinfo
                    /\ oldinfo[d].RBytes <= newinfo[d].RBytes}
    IN  [d \in kept |-> Delta(oldinfo[d], newinfo[d])[1]]

\* genDeltas without the skip of inactive devices.
genDeltasKeepInactive(oldinfo, newinfo) ==
    LET kept == {d \in DOMAIN newinfo :
                    /\ d \in DOMAIN oldinfo
                    /\ Delta(oldinfo[d], newinfo[d])[2]}
    IN  [d \in kept |-> Delta(oldinfo[d], newinfo[d])[1]]

\* genDeltas(oldinfo, newinfo): Stats and Deltas are functions from the
\* device names they hold.
genDeltas(oldinfo, newinfo) ==
    LET kept == {d \in DOMAIN newinfo :
                    /\ newinfo[d].RBytes # 0
                    /\ d \in DOMAIN oldinfo
                    /\ Delta(oldinfo[d], newinfo[d])[2]}
    IN  [d \in kept |-> Delta(oldinfo[d], newinfo[d])[1]]

-----------------------------------------------------------------------------
(* glob.Glob of github.com/ryanuber/go-glob: "*" is the only wildcard. *)

\* The loop over the leading parts, from part i on: (ok, what is left of
\* subj).
RECURSIVE GlobParts(_, _, _, _)
globTrim(parts, i, subj, leadingGlob, idx) ==
    IF i = 1 /\ ~leadingGlob /\ idx # 0 THEN <<FALSE, subj>>
    ELSE IF i > 1 /\ idx < 0 THEN <<FALSE, subj>>
    ELSE GlobParts(parts, i + 1,
                   SubSeq(subj, idx + Len(parts[i]) + 1, Len(subj)),
                   leadingGlob)

GlobParts(parts, i, subj, leadingGlob) ==
    IF i >= Len(parts) THEN <<TRUE, subj>>
    ELSE globTrim(parts, i, subj, leadingGlob, Index(subj, parts[i]))

\* The end of Glob; r is what the loop over the leading parts gave.
globEnd(pattern, last, r) ==
    r[1] /\ (HasSuffix(pattern, "*") \/ HasSuffix(r[2], last))

globSplit(pattern, subj, parts) ==
    IF Len(parts) = 1 THEN subj = pattern
    ELSE globEnd(pattern, parts[Len(parts)],
                 GlobParts(parts, 1, subj, HasPrefix(pattern, "*")))

Glob(pattern, subj) ==
    IF pattern = "" THEN subj = pattern
    ELSE IF pattern = "*" THEN TRUE
    ELSE globSplit(pattern, subj, Split(pattern, "*"))

-----------------------------------------------------------------------------
(* net.ParseIP, IP.String, net.ParseCIDR and IPNet.Contains for IPv4. An IP *)
(* is its four octets; <<>> is nil.                                         *)

OctetOK(f) ==
    /\ AllDigits(f) /\ Len(f) <= 3
    /\ (Len(f) > 1 => Ch(f, 1) # "0")
    /\ Atoi(f) <= 255

ipOf(f) ==
    IF Len(f) = 4 /\ \A i \in 1..4 : OctetOK(f[i])
    THEN [i \in 1..4 |-> Atoi(f[i])]
    ELSE <<>>

ParseIP(s) == ipOf(Split(s, "."))

IPString(ip) ==
    Itoa(ip[1]) \o "." \o Itoa(ip[2]) \o "." \o Itoa(ip[3]) \o "." \o Itoa(ip[4])

RECURSIVE Pow2(_)
Pow2(n) == IF n = 0 THEN 1 ELSE 2 * Pow2(n - 1)

\* The bits of octet i (1..4) that a mask of n bits covers.
MaskBits(n, i) ==
    LET left == n - 8 * (i - 1)
    IN  IF left <= 0 THEN 0 ELSE IF left >= 8 THEN 8 ELSE left

Masked(ip, n) ==
    [i \in 1..4 |-> ip[i] - (ip[i] % Pow2(8 - MaskBits(n, i)))]

\* The triple (ok, address, network); the network is (masked IP, bits).
noCIDR == <<FALSE, <<>>, <<>>>>

cidrOf(ip, mask) ==
    IF ip = <<>> \/ ~AllDigits(mask) THEN noCIDR
    ELSE IF Atoi(mask) > 32 THEN noCIDR
    ELSE <<TRUE, ip, <<Masked(ip, Atoi(mask)), Atoi(mask)>>>>

cidrAt(s, i) ==
    IF i < 0 THEN noCIDR
    ELSE cidrOf(ParseIP(SubSeq(s, 1, i)), SubSeq(s, i + 2, Len(s)))

ParseCIDR(s) == cidrAt(s, Index(s, "/"))

Contains(cidr, ip) ==
    ip # <<>> /\ Masked(ip, cidr[2]) = cidr[1]

-----------------------------------------------------------------------------
(* netnames.go: the compiled-in names. *)

cslabNetNames ==
    [n \in {"net3", "net5", "dev2", "core", "iscsi1", "iscsi2", "red", "vpn",
            "wifi"} |->
        CASE n = "net3" -> "128.100.3.0/24"
          [] n = "net5" -> "128.100.5.0/24"
          [] n = "dev2" -> "192.168.151.0/24"
          [] n = "core" -> "192.168.66.0/24"
          [] n = "iscsi1" -> "192.168.101.0/24"
          [] n = "iscsi2" -> "192.168.102.0/24"
          [] n = "red" -> "172.17.0.0/16"
          [] n = "vpn" -> "172.29.0.0/16"
          [] n = "wifi" -> "172.31.0.0/16"]

cslabMultiNames ==
    [n \in {"iscsi", "blue"} |->
        CASE n = "iscsi" -> <<"iscsi1", "iscsi2">>
          [] n = "blue" -> <<"net3", "net5">>]

-----------------------------------------------------------------------------
(* finddev.go: the matchers. An ipMap is a function from IP strings to     *)
(* sequences of device names. A matcher returns the pair (matched, tgt).   *)

\* ipMap.add
ipMapAdd(im, ip, netdev) ==
    IF ip \in DOMAIN im
    THEN [im EXCEPT ![ip] = Append(im[ip], netdev)]
    ELSE [k \in DOMAIN im \cup {ip} |->
             IF k = ip THEN <<netdev>> ELSE im[k]]

\* globMatch when the loop stops at the first device that matches.
globMatchFirstOnly(devpat, netdevs, tgt) ==
    LET hit == {i \in DOMAIN netdevs : Glob(devpat, netdevs[i])}
    IN  <<hit # {},
          tgt \cup {netdevs[i] : i \in {h \in hit : \A g \in hit : h <= g}}>>

globMatch(devpat, netdevs, tgt) ==
    LET hit == {i \in DOMAIN netdevs : Glob(devpat, netdevs[i])}
    IN  <<hit # {}, tgt \cup {netdevs[i] : i \in hit}>>

\* ip is what net.ParseIP gave.
ipLookup(ip, ipmap, tgt) ==
    IF ip = <<>> THEN <<FALSE, tgt>>
    ELSE IF IPString(ip) \in DOMAIN ipmap
         THEN <<TRUE, addlist(tgt, ipmap[IPString(ip)])>>
         ELSE <<FALSE, tgt>>

ipMatch(devpat, ipmap, tgt) == ipLookup(ParseIP(devpat), ipmap, tgt)

globIPMatch(devpat, ipmap, tgt) ==
    LET hit == {k \in DOMAIN ipmap : Glob(devpat, k)}
    IN  <<hit # {}, tgt \cup UNION {Range(ipmap[k]) : k \in hit}>>

\* cidrIPMatch when one contained address brings in the devices of the
\* whole map.
cidrScanWholeMap(c, ipmap, tgt) ==
    IF ~c[1] THEN <<FALSE, tgt>>
    ELSE IF \E k \in DOMAIN ipmap : Contains(c[3], ParseIP(k))
         THEN <<TRUE, tgt \cup UNION {Range(ipmap[k]) : k \in DOMAIN ipmap}>>
         ELSE <<FALSE, tgt>>

\* The loop of cidrIPMatch; c is what net.ParseCIDR gave.
cidrScan(c, ipmap, tgt) ==
    IF ~c[1] THEN <<FALSE, tgt>>
    ELSE <<\E k \in DOMAIN ipmap : Contains(c[3], ParseIP(k)),
           tgt \cup UNION {Range(ipmap[k]) :
                             k \in {x \in DOMAIN ipmap :
                                       Contains(c[3], ParseIP(x))}}>>

cidrIPMatch(devpat, ipmap, tgt) == cidrScan(ParseCIDR(devpat), ipmap, tgt)

\* lookup is what os.Hostname and net.LookupHost give: (ok, addresses).
matchMe(devpat, ipmap, tgt, lookup) ==
    IF devpat # "me" THEN <<FALSE, tgt>>
    ELSE IF ~lookup[1] THEN <<FALSE, tgt>>
    ELSE LET hit == {i \in DOMAIN lookup[2] : lookup[2][i] \in DOMAIN ipmap}
         IN  <<hit # {},
               tgt \cup UNION {Range(ipmap[lookup[2][i]]) : i \in hit}>>

\* The loop of matchNetNames over the members of a multi-name, from member
\* i on; r is what cidrIPMatch gave for member i.
RECURSIVE matchMulti(_, _, _, _, _, _)

\* The loop when it returns at the first member that matches.
multiNextStopAtFirst(slist, i, netnames, ipmap, matched, r) ==
    IF r[1] THEN r
    ELSE matchMulti(slist, i + 1, netnames, ipmap, matched, r[2])

multiNext(slist, i, netnames, ipmap, matched, r) ==
    matchMulti(slist, i + 1, netnames, ipmap, matched \/ r[1], r[2])

matchMulti(slist, i, netnames, ipmap, matched, tgt) ==
    IF i > Len(slist) THEN <<matched, tgt>>
    ELSE IF slist[i] \notin DOMAIN netnames THEN <<FALSE, tgt>>
    ELSE multiNext(slist, i, netnames, ipmap, matched,
                   cidrIPMatch(netnames[slist[i]], ipmap, tgt))

matchNetNamesIn(netnames, multinames, devpat, ipmap, tgt) ==
    IF devpat \in DOMAIN netnames
    THEN cidrIPMatch(netnames[devpat], ipmap, tgt)
    ELSE IF devpat \in DOMAIN multinames
    THEN matchMulti(multinames[devpat], 1, netnames, ipmap, FALSE, tgt)
    ELSE <<FALSE, tgt>>

matchNetNames(devpat, ipmap, tgt) ==
    matchNetNamesIn(cslabNetNames, cslabMultiNames, devpat, ipmap, tgt)

-----------------------------------------------------------------------------
(* finddev.go: expandDevList. Beside the set nk the model keeps, per token, *)
(* the matchers that were evaluated, whether one matched, and the names     *)
(* that were added to nk while the token was processed.                     *)

\* The chain with the glob over names after the exact IP.
matcherOrderIPFirst == <<"me", "netnames", "ip", "glob", "cidr", "globip">>

\* The matchers of the || chain, in the order of the chain.
matcherOrder == <<"me", "netnames", "glob", "ip", "cidr", "globip">>

runMatcher(m, k, devs, ni, lookup, tgt) ==
    CASE m = "me" -> matchMe(k, ni.ipmap, tgt, lookup)
      [] m = "netnames" -> matchNetNames(k, ni.ipmap, tgt)
      [] m = "glob" -> globMatch(k, devs, tgt)
      [] m = "ip" -> ipMatch(k, ni.ipmap, tgt)
      [] m = "cidr" -> cidrIPMatch(k, ni.ipmap, tgt)
      [] m = "globip" -> globIPMatch(k, ni.ipmap, tgt)

\* The || chain from matcher i on: || evaluates its right operand only when
\* the left one is false. Adding to a set is a union, so the names a matcher
\* adds are those it adds to an empty set; r is (matched, names added).
RECURSIVE cascade(_, _, _, _, _, _, _, _)
cascadeStep(i, k, devs, ni, lookup, nk, got, tried, r) ==
    IF r[1]
    THEN [matched |-> TRUE, nk |-> nk \cup r[2], names |-> got \cup r[2],
          tried |-> tried]
    ELSE cascade(i + 1, k, devs, ni, lookup, nk \cup r[2], got \cup r[2],
                 tried)

cascade(i, k, devs, ni, lookup, nk, got, tried) ==
    IF i > Len(matcherOrder)
    THEN [matched |-> FALSE, nk |-> nk, names |-> got, tried |-> tried]
    ELSE cascadeStep(i, k, devs, ni, lookup, nk, got,
                     Append(tried, matcherOrder[i]),
                     runMatcher(matcherOrder[i], k, devs, ni, lookup, {}))

\* One pass of the loop over devices.
expandOne(k, st, ni, lookup, nk) ==
    IF k \in DOMAIN st
    THEN [matched |-> TRUE, nk |-> add(nk, k), names |-> {k},
          tried |-> <<"exact">>]
    ELSE cascade(1, k, members(DOMAIN st), ni, lookup, nk, {}, <<"exact">>)

\* The loop over devices from token i on; r is what the pass for token i
\* gave. log.Fatalf ends the program at the first token that nothing
\* matches.
RECURSIVE expandFrom(_, _, _, _, _, _, _)
\* The loop without the log.Fatalf: a token that nothing matches is passed
\* over.
expandNextLenient(devices, i, st, ni, lookup, tr, r) ==
    expandFrom(devices, i + 1, st, ni, lookup, r.nk,
               Append(tr, [token |-> devices[i], tried |-> r.tried,
                           matched |-> r.matched, names |-> r.names]))

expandNext(devices, i, st, ni, lookup, tr, r) ==
    IF r.matched
    THEN expandFrom(devices, i + 1, st, ni, lookup, r.nk,
                    Append(tr, [token |-> devices[i], tried |-> r.tried,
                                matched |-> TRUE, names |-> r.names]))
    ELSE [fatal |-> TRUE, nk |-> r.nk,
          trace |-> Append(tr, [token |-> devices[i], tried |-> r.tried,
                                matched |-> FALSE, names |-> r.names])]

expandFrom(devices, i, st, ni, lookup, nk, tr) ==
    IF i > Len(devices) THEN [fatal |-> FALSE, nk |-> nk, trace |-> tr]
    ELSE expandNext(devices, i, st, ni, lookup, tr,
                    expandOne(devices[i], st, ni, lookup, nk))

\* The removal of the first excluded device only.
removeFirstOnly(nk, lst) ==
    IF lst = <<>> THEN nk ELSE remove(nk, Head(lst))

\* The loop that removes the excluded devices from nk.
RECURSIVE removeAll(_, _)
removeAll(nk, lst) ==
    IF lst = <<>> THEN nk ELSE removeAll(remove(nk, Head(lst)), Tail(lst))

\* The end of expandDevList; r is what the loop over devices gave.
expandResult(r, ex) ==
    IF r.fatal THEN [fatal |-> TRUE, keys |-> <<>>, trace |-> r.trace]
    ELSE [fatal |-> FALSE, keys |-> members(removeAll(r.nk, ex)),
          trace |-> r.trace]

expandDevList(devices, st, ex, ni, lookup) ==
    expandResult(expandFrom(devices, 1, st, ni, lookup, {}, <<>>), ex)

-----------------------------------------------------------------------------
(* setupNetinfo (net.Interfaces) and Stats.Fill (/proc/net/dev).           *)

emptyNetinfo ==
    [ipmap |-> <<>>, ifaces |-> <<>>, loopbacks |-> {}, pointtopoint |-> {}]

\* The loop over the addresses of one interface.
RECURSIVE addAddrs(_, _, _)
addAddr(im, name, addrs, net, c) ==
    IF net # "ip+net" \/ ~c[1]
    THEN addAddrs(im, name, Tail(addrs))
    ELSE addAddrs(ipMapAdd(im, IPString(c[2]), name), name, Tail(addrs))

addAddrs(im, name, addrs) ==
    IF addrs = <<>> THEN im
    ELSE addAddr(im, name, addrs, Head(addrs).net,
                 ParseCIDR(Head(addrs).str))

\* The loop over the interfaces.
RECURSIVE setupNetinfo(_, _)
setupIface(i, rest, ni) ==
    setupNetinfo(rest,
        [ni EXCEPT
            !.loopbacks = IF "loopback" \in i.Flags
                          THEN add(@, i.Name) ELSE @,
            !.pointtopoint = IF "pointtopoint" \in i.Flags
                             THEN add(@, i.Name) ELSE @,
            !.ifaces = Append(@, i.Name),
            !.ipmap = IF i.AddrsErr THEN @
                      ELSE addAddrs(@, i.Name, i.Addrs)])

setupNetinfo(ints, ni) ==
    IF ints = <<>> THEN ni ELSE setupIface(Head(ints), Tail(ints), ni)

\* Fill: every line of one read of /proc/net/dev gets the instant of the
\* read.
Fill(raw, when) ==
    [d \in DOMAIN raw |->
        DevStat(when, raw[d].RBytes, raw[d].TBytes, raw[d].RPackets,
                raw[d].TPackets)]

\* Solaris: the loop over the entries of getifaddrs(), one entry per
\* address; ifaces is the set of the names seen so far.
RECURSIVE setupNetinfoSolaris(_, _, _)
setupIfaddr(fi, rest, ifaces, ni) ==
    IF fi.Family # "AF_INET"
    THEN setupNetinfoSolaris(rest, ifaces, ni)
    ELSE setupNetinfoSolaris(rest, add(ifaces, fi.Name),
            [ni EXCEPT
                !.loopbacks = IF "loopback" \in fi.Flags
                              THEN add(@, fi.Name) ELSE @,
                !.pointtopoint = IF "pointtopoint" \in fi.Flags
                                 THEN add(@, fi.Name) ELSE @,
                !.ipmap = ipMapAdd(@, IPString(fi.Addr), fi.Name)])

setupNetinfoSolaris(ifap, ifaces, ni) ==
    IF ifap = <<>> THEN [ni EXCEPT !.ifaces = members(ifaces)]
    ELSE setupIfaddr(Head(ifap), Tail(ifap), ifaces, ni)

\* Solaris Fill: the interfaces of netinfo that have link kstats; an
\* interface without them is skipped.
FillSolaris(kstats, ifaces, when) ==
    [d \in Range(ifaces) \cap DOMAIN kstats |->
        DevStat(when, kstats[d].RBytes, kstats[d].TBytes,
                kstats[d].RPackets, kstats[d].TPackets)]

\* The setupNetinfo and the Fill of the platform the program is built for.
platformNetinfo(e) ==
    IF e.os = "solaris"
    THEN setupNetinfoSolaris(e.ifs, {}, emptyNetinfo)
    ELSE setupNetinfo(e.ifs, emptyNetinfo)

platformFill(e, raw, ni, when) ==
    IF e.os = "solaris" THEN FillSolaris(raw, ni.ifaces, when)
    ELSE Fill(raw, when)

-----------------------------------------------------------------------------
(* netvolmon.go: main and processLoop.                                      *)

\* strconv.ParseUint(s, 0, 64) for decimal numerals: the pair (ok, value).
ParseUint(s) ==
    IF AllDigits(s) /\ (Len(s) > 1 => Ch(s, 1) # "0")
    THEN <<TRUE, Atoi(s)>> ELSE <<FALSE, 0>>

\* log.Fatal that logs and lets the caller go on.
FatalGoesOn(msg) ==
    /\ pc' = pc
    /\ err' = msg

Fatal(msg) ==
    /\ pc' = "fatal"
    /\ err' = msg

\* The trailing argument of main: (it is a number of seconds, the number).
trailingSeconds(argv) ==
    IF Len(argv) > 0 /\ ParseUint(argv[Len(argv)])[1]
       /\ ParseUint(argv[Len(argv)])[2] > 0
    THEN <<TRUE, ParseUint(argv[Len(argv)])[2]>>
    ELSE <<FALSE, 0>>

\* incLo when device arguments do not set it.
includeLoopbackFlagOnly(l, devices) == l

\* incLo after main has looked at its arguments: -l, or device arguments.
includeLoopback(l, devices) == l \/ Len(devices) > 0

\* The exclude list when -P adds nothing to it.
excludeListNoPtP(x, P, ni) == Split(x, ",")

\* The exclude list main hands to processLoop.
excludeList(x, P, ni) ==
    Split(x, ",") \o (IF P THEN members(ni.pointtopoint) ELSE <<>>)

\* main from setupNetinfo on; ni is what setupNetinfo filled in.
mainSetup(ni) ==
    IF env.ifsErr
    THEN /\ Fatal("network info setup")
         /\ UNCHANGED <<exlist, netinfo>>
    ELSE /\ netinfo' = ni
         /\ exlist' = excludeList(cmd.x, cmd.P, ni)
         /\ pc' = "processLoop"
         /\ err' = ""

\* main after the check for conflicting options; t is what the trailing
\* argument is.
mainArgs(t) ==
    IF t[1] /\ cmd.d # 1 /\ cmd.d # t[2]
    THEN /\ Fatal("both -d and seconds")
         /\ UNCHANGED <<args, duration, incLo, exlist, netinfo>>
    ELSE /\ duration' = IF t[1] THEN t[2] ELSE cmd.d
         /\ args' = IF t[1] THEN SubSeq(cmd.argv, 1, Len(cmd.argv) - 1)
                    ELSE cmd.argv
         /\ incLo' = includeLoopback(cmd.l, args')
         /\ mainSetup(platformNetinfo(env))

\* main, from flag.Parse to the call of processLoop. -L, -W, -T, -k and -b
\* are not given on the command lines of the model.
Main ==
    /\ pc = "main"
    /\ IF cmd.R /\ cmd.z
       THEN /\ Fatal("conflicting arguments")
            /\ UNCHANGED <<args, duration, incLo, exlist, netinfo>>
       ELSE mainArgs(trailingSeconds(cmd.argv))
    /\ UNCHANGED <<cmd, env, oldst, dt, keys, trace, printed, now, call, ret>>

\* The keys of the report on everything when loopback devices are kept.
activeKeysKeepLoopback(st, lo, ni, excludes) ==
    SortStrings({k \in DOMAIN st :
                    ~ \/ st[k].RBytes = 0
                      \/ isin(excludes, k)})

\* The keys of the report on everything: the active devices of oldst that
\* are neither loopback (without -l) nor excluded, sorted.
activeKeys(st, lo, ni, excludes) ==
    SortStrings({k \in DOMAIN st :
                    ~ \/ st[k].RBytes = 0
                      \/ (~lo /\ isin(ni.loopbacks, k))
                      \/ isin(excludes, k)})

\* processLoop without the check of keys.
noDevicesUnchecked(k) == FALSE

\* Whether processLoop found nothing to monitor.
noDevices(k) == Len(k) = 0

\* processLoop after the first Fill; r is what expandDevList gave, or the
\* keys of the report on everything.
startWith(st, r) ==
    /\ oldst' = st
    /\ trace' = r.trace
    /\ IF r.fatal
       THEN /\ Fatal("device specifier matches nothing")
            /\ UNCHANGED keys
       ELSE /\ keys' = r.keys
            /\ IF noDevices(r.keys)
               THEN Fatal("no devices to monitor")
               ELSE pc' = "resolved" /\ err' = ""

\* processLoop up to the check of keys: the first Fill and the device list.
ProcessLoopStart ==
    /\ pc = "processLoop"
    /\ IF env.firstErr
       THEN /\ Fatal("initial filling")
            /\ UNCHANGED <<oldst, keys, trace>>
       ELSE IF Len(args) > 0
       THEN startWith(platformFill(env, env.first, netinfo, now),
                      expandDevList(args,
                                    platformFill(env, env.first, netinfo,
                                                 now),
                                    exlist, netinfo, env.lookup))
       ELSE startWith(platformFill(env, env.first, netinfo, now),
                      [fatal |-> FALSE, trace |-> <<>>,
                       keys |-> activeKeys(platformFill(env, env.first,
                                                        netinfo, now),
                                           incLo, netinfo,
                                           addlist({}, exlist))])
    /\ UNCHANGED <<cmd, env, args, duration, incLo, exlist, netinfo, dt,
                   printed, now, call, ret>>

\* -R: print the devices and return.
Report ==
    /\ pc = "resolved"
    /\ cmd.R
    /\ pc' = "exit"
    /\ UNCHANGED <<err, cmd, env, args, duration, incLo, exlist, netinfo,
                   oldst, dt, keys, trace, printed, now, call, ret>>

kB == 1024

mB == kB * 1024

\* The quotient float64(n) / (persec * div) of printDelta, kept as numerator
\* and denominator; the elapsed time is in seconds. A denominator of 0 is a
\* floating-point division by zero, which gives +Inf or NaN.
Rate(n, elapsed, div) == [num |-> n, den |-> elapsed * div]

\* printDelta without -T and -k: the line it prints.
printDelta(devname, d) ==
    [dev |-> devname, delta |-> d,
     rx |-> Rate(d.RBytes, d.Delta, mB), tx |-> Rate(d.TBytes, d.Delta, mB),
     rxp |-> Rate(d.RPackets, d.Delta, 1),
     txp |-> Rate(d.TPackets, d.Delta, 1)]

\* The print loop without the test for a delta of no bytes.
toPrintShowsIdle(ks, deltas, lo, ni, excludes, zero) ==
    SelectSeq(ks, LAMBDA k :
        /\ ~(~lo /\ isin(ni.loopbacks, k))
        /\ ~isin(excludes, k)
        /\ k \in DOMAIN deltas)

\* The print loop when a device is skipped as soon as one of its two byte
\* deltas is zero.
toPrintNeedsBoth(ks, deltas, lo, ni, excludes, zero) ==
    SelectSeq(ks, LAMBDA k :
        /\ ~(~lo /\ isin(ni.loopbacks, k))
        /\ ~isin(excludes, k)
        /\ k \in DOMAIN deltas
        /\ ~(~zero /\ (deltas[k].RBytes = 0 \/ deltas[k].TBytes = 0)))

\* The devices one pass of the for loop prints, in the order of keys.
toPrint(ks, deltas, lo, ni, excludes, zero) ==
    SelectSeq(ks, LAMBDA k :
        /\ ~(~lo /\ isin(ni.loopbacks, k))
        /\ ~isin(excludes, k)
        /\ k \in DOMAIN deltas
        /\ ~(~zero /\ deltas[k].RBytes = 0 /\ deltas[k].TBytes = 0))

-----------------------------------------------------------------------------
(* The command lines and platforms of the model.                            *)

Addr(str) == [net |-> "ip+net", str |-> str]

Iface(name, flags, addrs) ==
    [Name |-> name, Flags |-> flags, AddrsErr |-> FALSE, Addrs |-> addrs]

\* Three interfaces, one address each.
IfPlain ==
    <<Iface("lo", {"up", "loopback"}, <<Addr("127.0.0.1/8")>>),
      Iface("eth0", {"up"}, <<Addr("128.100.3.7/24")>>),
      Iface("eth1", {"up"}, <<Addr("128.100.5.9/24")>>)>>

\* An address on two interfaces, an interface with two addresses, a
\* point-to-point link.
IfShared ==
    <<Iface("lo", {"up", "loopback"}, <<Addr("127.0.0.1/8")>>),
      Iface("eth0", {"up"}, <<Addr("128.100.3.7/24"), Addr("10.0.0.5/8")>>),
      Iface("eth1", {"up"}, <<Addr("128.100.3.7/24")>>),
      Iface("ppp0", {"up", "pointtopoint"}, <<Addr("10.0.0.6/32")>>)>>

Raw(r, t) == [RBytes |-> r, TBytes |-> t, RPackets |-> r, TPackets |-> t]

\* First reads of /proc/net/dev.
ReadMixed == [d \in {"lo", "eth0", "eth1"} |->
                 CASE d = "lo" -> Raw(1, 1)
                   [] d = "eth0" -> Raw(2, 1)
                   [] d = "eth1" -> Raw(0, 1)]

\* ppp0 is up.
ReadNewLink == [d \in {"lo", "eth0", "eth1", "ppp0"} |->
                   CASE d = "lo" -> Raw(1, 1)
                     [] d = "eth0" -> Raw(1, 0)
                     [] d = "eth1" -> Raw(1, 1)
                     [] d = "ppp0" -> Raw(2, 2)]

ReadSilent == [d \in {"lo", "eth0"} |-> Raw(0, 1)]

\* eth0 is not there yet.
ReadLate == [d \in {"lo", "eth1"} |-> Raw(1, 1)]

Platform(ifs, lookup, first) ==
    [os |-> "linux", ifs |-> ifs, ifsErr |-> FALSE, lookup |-> lookup,
     first |-> first, firstErr |-> FALSE]

NoLookup == <<FALSE, <<>>>>

\* The host name resolves to an address of eth0 and to one that is not local.
LookupEth == <<TRUE, <<"128.100.3.7", "10.9.9.9">>>>

\* One entry of getifaddrs().
Ifaddr(name, flags, family, addr) ==
    [Name |-> name, Flags |-> flags, Family |-> family, Addr |-> addr]

\* Solaris: eth0 has an alias address, eth1 has an IPv6 address only.
IfSolaris ==
    <<Ifaddr("lo", {"up", "loopback"}, "AF_INET", <<127, 0, 0, 1>>),
      Ifaddr("eth0", {"up"}, "AF_INET", <<128, 100, 3, 7>>),
      Ifaddr("eth0", {"up"}, "AF_INET", <<10, 0, 0, 5>>),
      Ifaddr("eth1", {"up"}, "AF_INET6", <<0, 0, 0, 0>>)>>

\* The link kstats: the loopback device has none.
KstatLinks == [d \in {"eth0", "eth1"} |->
                  CASE d = "eth0" -> Raw(2, 1)
                    [] d = "eth1" -> Raw(1, 1)]

Solaris ==
    [os |-> "solaris", ifs |-> IfSolaris, ifsErr |-> FALSE,
     lookup |-> NoLookup, first |-> KstatLinks, firstErr |-> FALSE]

WidePlatforms ==
    {Platform(IfPlain, NoLookup, f) :
        f \in {ReadMixed, ReadNewLink, ReadSilent}}
    \cup {Platform(IfShared, LookupEth, f) :
            f \in {ReadMixed, ReadNewLink, ReadSilent}}
    \cup {Platform(IfPlain, LookupEth, ReadMixed),
          [Platform(IfPlain, NoLookup, ReadMixed) EXCEPT !.ifsErr = TRUE],
          [Platform(IfPlain, NoLookup, ReadMixed) EXCEPT !.firstErr = TRUE]}

Tokens == {"eth0", "me", "net3", "blue", "*", "128.100.3.7",
           "128.100.0.0/16", "12*", "nosuch"}

\* The lists of at most n tokens.
RECURSIVE TokenLists(_)
TokenLists(n) ==
    IF n = 0 THEN {<<>>}
    ELSE TokenLists(n - 1) \cup
         {Append(l, t) : l \in {x \in TokenLists(n - 1) : Len(x) = n - 1},
                         t \in Tokens}

\* A command line: d is the value of duration after flag.Parse, which is
\* one second without -d; dGiven is whether -d was on the command line,
\* which the program has no record of.
CmdLine(argv, d, l, z, R, x, P) ==
    [argv |-> argv, d |-> d, dGiven |-> d # 1, l |-> l, z |-> z, R |-> R,
     x |-> x, P |-> P]

WideCmdLines ==
    {CmdLine(a, 1, FALSE, FALSE, FALSE, xP[1], xP[2]) :
        a \in TokenLists(MaxTokens),
        xP \in {<<"", FALSE>>, <<"lo,eth1", FALSE>>, <<"eth0", TRUE>>}}
    \cup {CmdLine(<<>>, 1, TRUE, FALSE, FALSE, x, FALSE) :
            x \in {"", "lo,eth1"}}

Start ==
    /\ pc = "main" /\ err = "" /\ args = <<>> /\ duration = 1
    /\ incLo = FALSE /\ exlist = <<>> /\ netinfo = emptyNetinfo
    /\ oldst = <<>> /\ dt = <<>> /\ keys = <<>> /\ trace = <<>>
    /\ printed = <<>> /\ now = 0 /\ call = <<>> /\ ret = <<>>

\* The resolver over every command line and platform of the model: main and
\* the start of processLoop.
InitResolve ==
    /\ Start
    /\ cmd \in WideCmdLines
    /\ env \in WidePlatforms

NextResolve == Main \/ ProcessLoopStart

SpecResolve == InitResolve /\ [][NextResolve]_vars

\* The whole program on fewer command lines and platforms.
Flags ==
    {CmdLine(<<>>, d, l, z, R, x, P) :
        d \in {1, 2, 3}, l \in BOOLEAN, z \in BOOLEAN, R \in BOOLEAN,
        x \in {"", "eth0"}, P \in BOOLEAN}

\* At most one option is given.
OneFlag ==
    {f \in Flags :
        Cardinality({o \in {"d", "l", "z", "R", "x", "P"} :
                        f[o] # CmdLine(<<>>, 1, FALSE, FALSE, FALSE, "",
                                       FALSE)[o]}) <= 1}

CmdLines ==
    {[f EXCEPT !.argv = a] :
        f \in OneFlag \cup {CmdLine(<<>>, 1, FALSE, TRUE, TRUE, "", FALSE),
                            CmdLine(<<>>, 1, FALSE, FALSE, FALSE, "eth0,lo",
                                    FALSE)},
        a \in {<<>>, <<"eth0">>, <<"*">>, <<"e*", "2">>,
               <<"lo", "128.100.3.7">>, <<"eth0", "nosuch">>, <<"2">>}}
    \cup {[CmdLine(a, 1, FALSE, FALSE, FALSE, "", FALSE)
              EXCEPT !.dGiven = TRUE] :
            a \in {<<"eth0">>, <<"e*", "2">>, <<"2">>}}

Platforms ==
    {Platform(IfPlain, NoLookup, ReadMixed),
     Platform(IfShared, NoLookup, ReadSilent),
     Platform(IfPlain, NoLookup, ReadLate),
     Platform(IfShared, NoLookup, ReadNewLink),
     [Platform(IfPlain, NoLookup, ReadMixed) EXCEPT !.firstErr = TRUE],
     Solaris}

\* The reads of /proc/net/dev in the loop.
EthReads == {Raw(r, t) : r \in {0, 1, 2}, t \in {0, 1}}

LoReads == {Raw(0, 1), Raw(1, 1), Raw(2, 0)}

CycleReads ==
    UNION {{f \in [D -> EthReads \cup LoReads] :
               \A d \in D : f[d] \in IF d = "lo" THEN LoReads ELSE EthReads} :
           D \in SUBSET {"eth0", "lo"}}
    \cup {[d \in D |-> IF d = "ppp0" THEN Raw(3, 2) ELSE Raw(2, 1)] :
            D \in {{"ppp0"}, {"eth0", "ppp0"}}}
    \cup {[d \in {"eth0"} |-> Raw(0, 2)]}

\* The base of the next cycle when a device without a delta keeps its
\* record of the old base.
nextBaseKeepsUndiffed(old, new, deltas) ==
    [d \in DOMAIN new \cup (DOMAIN old \ DOMAIN deltas) |->
        IF d \in DOMAIN deltas \/ d \notin DOMAIN old THEN new[d] ELSE old[d]]

\* oldst = newst at the end of the for loop.
nextBase(old, new, deltas) == new

\* The list when every cycle takes it from the deltas.
loopKeysAlwaysFresh(devices, deltas, ks) == members(DOMAIN deltas)

\* The list of one cycle: without device arguments the devices of the
\* deltas, else the list of startup.
loopKeys(devices, deltas, ks) ==
    IF Len(devices) = 0 THEN members(DOMAIN deltas) ELSE ks

\* One pass of the for loop: sleep, Fill, genDeltas, print, oldst = newst.
Cycle ==
    /\ pc \in {"resolved", "loop"}
    /\ ~cmd.R
    /\ now + duration <= MaxTime
    /\ now' = now + duration
    /\ \/ /\ Fatal("refilling")
          /\ UNCHANGED <<oldst, dt, keys, printed>>
       \/ \E raw \in CycleReads :
            LET newst == platformFill(env, raw, netinfo, now')
                d == genDeltas(oldst, newst)
                ks == loopKeys(args, d, keys)
                lines == toPrint(ks, d, incLo, netinfo, addlist({}, exlist),
                                 cmd.z)
            IN  /\ dt' = d
                /\ keys' = ks
                /\ printed' = [i \in DOMAIN lines |->
                                  printDelta(lines[i], d[lines[i]])]
                /\ oldst' = nextBase(oldst, newst, d)
                /\ pc' = "loop"
                /\ err' = ""
    /\ UNCHANGED <<cmd, env, args, duration, incLo, exlist, netinfo, trace,
                   call, ret>>

Init ==
    /\ Start
    /\ cmd \in CmdLines
    /\ env \in Platforms

Next == Main \/ ProcessLoopStart \/ Report \/ Cycle

Spec == Init /\ [][Next]_vars

-----------------------------------------------------------------------------
(* The resolver's claims. The strategies are evaluated on their own, each   *)
(* into an empty set, against the first snapshot and the netinfo of main.   *)

InitialStats == platformFill(env, env.first, netinfo, 0)

StrategyOrder == <<"exact", "me", "symbolic", "globname", "ip", "cidr",
                   "globip">>

\* (matched, names) of strategy number j for token k.
Strategy(j, k) ==
    CASE j = 1 -> <<k \in DOMAIN InitialStats, {k} \cap DOMAIN InitialStats>>
      [] j = 2 -> matchMe(k, netinfo.ipmap, {}, env.lookup)
      [] j = 3 -> matchNetNames(k, netinfo.ipmap, {})
      [] j = 4 -> globMatch(k, SortStrings(DOMAIN InitialStats), {})
      [] j = 5 -> ipMatch(k, netinfo.ipmap, {})
      [] j = 6 -> cidrIPMatch(k, netinfo.ipmap, {})
      [] j = 7 -> globIPMatch(k, netinfo.ipmap, {})

Matching(k) == {j \in 1..7 : Strategy(j, k)[1]}

MinOf(S) == CHOOSE j \in S : \A h \in S : j <= h

FirstMatching(k) == MinOf(Matching(k))

\* The names of the first strategy that matches k.
Resolution(k) == Strategy(FirstMatching(k), k)[2]

\* The name the trace gives to strategy number j.
TraceName(j) ==
    <<"exact", "me", "netnames", "glob", "ip", "cidr", "globip">>[j]

\* processLoop got past the first Fill.
Filled ==
    \/ pc \in {"resolved", "loop", "exit"}
    \/ pc = "fatal" /\ err \in {"device specifier matches nothing",
                                "no devices to monitor", "refilling"}

\* processLoop has its device list.
HasKeys ==
    \/ pc \in {"resolved", "loop", "exit"}
    \/ pc = "fatal" /\ err \in {"no devices to monitor", "refilling"}

\* C5: per token the strategies are evaluated in the order exact name, me,
\* symbolic name, glob over names, exact IP, CIDR, glob over IPs, up to and
\* including the first that matches; the names the token adds are exactly
\* the names of that strategy.
C5_FirstMatchWins ==
    (Filled /\ pc \notin {"loop", "exit"}) =>
        \A i \in DOMAIN trace :
            LET e == trace[i]
                n == Len(e.tried)
            IN  /\ n \in 1..7
                /\ e.token = args[i]
                /\ \A j \in 1..n : e.tried[j] = TraceName(j)
                /\ \A j \in 1..(n - 1) : ~Strategy(j, e.token)[1]
                /\ e.matched = Strategy(n, e.token)[1]
                /\ e.matched => e.names = Strategy(n, e.token)[2]
                /\ ~e.matched => n = 7 /\ e.names = {}

\* "*" is matched by the glob over names; the glob over IPs would match it
\* too, with other names, and is not evaluated.
C5_Witness ==
    /\ pc = "resolved"
    /\ \E i \in DOMAIN trace :
        /\ trace[i].token = "*"
        /\ trace[i].tried = <<"exact", "me", "netnames", "glob">>
        /\ trace[i].matched
        /\ Strategy(7, "*")[1]
        /\ Strategy(7, "*")[2] # trace[i].names
        /\ trace[i].names = Strategy(4, "*")[2]

\* C6: when a token of the list matches under none of the seven strategies,
\* the program ends in log.Fatalf with no device list; it is never in the
\* loop.
C6_UnmatchedTokenFatal ==
    (Filled /\ \E i \in DOMAIN args : Matching(args[i]) = {})
    => /\ pc = "fatal"
       /\ err = "device specifier matches nothing"
       /\ keys = <<>>

\* The first token matched, the second did not.
C6_Witness ==
    /\ pc = "fatal" /\ err = "device specifier matches nothing"
    /\ Len(args) = 2
    /\ Matching(args[1]) # {} /\ Matching(args[2]) = {}
    /\ Len(trace) = 2 /\ trace[1].matched /\ ~trace[2].matched
    /\ keys = <<>>

\* C7: the device list is in ascending order and holds no name twice.
C7_SortedNoDuplicates ==
    HasKeys => \A i, j \in DOMAIN keys : i < j => StrLess(keys[i], keys[j])

\* Two tokens match the same devices, through an address that two devices
\* carry.
C7_Witness ==
    /\ pc = "resolved"
    /\ Len(args) = 2 /\ args[1] # args[2]
    /\ \E ip \in DOMAIN netinfo.ipmap :
        /\ Len(netinfo.ipmap[ip]) > 1
        /\ args[1] = ip
    /\ Resolution(args[1]) = Resolution(args[2])
    /\ Len(keys) = 2

\* C8: every name of the device list is one of netinfo's interfaces.
C8_KeysAreInterfaces ==
    (pc = "resolved" /\ Len(args) > 0)
    => \A i \in DOMAIN keys : keys[i] \in Range(netinfo.ifaces)

\* C9: the device list is the set of the matched names minus the exclusion
\* list.
C9_ExcludeAfterMatch ==
    (HasKeys /\ Len(args) > 0)
    => /\ Range(keys) =
            UNION {Resolution(args[i]) : i \in DOMAIN args} \ Range(exlist)
       /\ Range(keys) \cap Range(exlist) = {}

\* One excluded name was matched, another was not, and a device is left.
C9_Witness ==
    /\ pc = "resolved" /\ Len(args) > 0
    /\ \E x \in Range(exlist) :
          \E i \in DOMAIN args : x \in Resolution(args[i])
    /\ \E x \in Range(exlist) :
          \A i \in DOMAIN args : x \notin Resolution(args[i])
    /\ Len(keys) > 0

\* The device set processLoop starts with.
FinalSet ==
    IF Len(args) > 0
    THEN UNION {Resolution(args[i]) : i \in DOMAIN args} \ Range(exlist)
    ELSE {k \in DOMAIN InitialStats :
             /\ InitialStats[k].RBytes # 0
             /\ incLo \/ k \notin netinfo.loopbacks
             /\ k \notin Range(exlist)}

\* C10: when the device set at startup is empty the program ends in
\* log.Fatal; it is never in the loop.
C10_EmptySetFatal ==
    (/\ Filled
     /\ \A i \in DOMAIN args : Matching(args[i]) # {}
     /\ FinalSet = {})
    => pc = "fatal" /\ err = "no devices to monitor"

\* The tokens matched excluded devices only.
C10_Witness ==
    /\ pc = "fatal" /\ err = "no devices to monitor"
    /\ Len(args) > 0
    /\ UNION {Resolution(args[i]) : i \in DOMAIN args} # {}
    /\ FinalSet = {}

\* No token, and no device of the first snapshot is selected.
C10_WitnessEverything ==
    /\ pc = "fatal" /\ err = "no devices to monitor"
    /\ Len(args) = 0
    /\ DOMAIN InitialStats # {}
    /\ FinalSet = {}

\* C11: without tokens the device list processLoop starts with is, in
\* ascending order, exactly the devices of the snapshot with nonzero received
\* bytes, without the loopback devices unless -l was given, and without the
\* excluded names.
C11_WatchEverything ==
    (/\ pc = "resolved" \/ (pc = "fatal" /\ err = "no devices to monitor")
     /\ Len(args) = 0)
    => /\ Range(keys) =
            ({d \in DOMAIN oldst : oldst[d].RBytes # 0}
                \ (IF incLo THEN {} ELSE netinfo.loopbacks))
            \ Range(exlist)
       /\ \A i, j \in DOMAIN keys : i < j => StrLess(keys[i], keys[j])

\* lo has traffic and is left out as loopback, eth1 is left out for having
\* received nothing, eth0 is the list.
C11_Witness ==
    /\ pc = "resolved" /\ Len(args) = 0 /\ ~incLo
    /\ "lo" \in netinfo.loopbacks
    /\ "lo" \in DOMAIN oldst /\ oldst["lo"].RBytes # 0
    /\ "eth1" \in DOMAIN oldst /\ oldst["eth1"].RBytes = 0
    /\ keys = <<"eth0">>

\* C12: a token that is the name of one of netinfo's interfaces is matched
\* and adds exactly that name, whether or not the first snapshot has the
\* device.
C12_DirectoryNameResolves ==
    Filled =>
        \A i \in DOMAIN trace :
            trace[i].token \in Range(netinfo.ifaces)
            => trace[i].matched /\ trace[i].names = {trace[i].token}

-----------------------------------------------------------------------------
(* The reporting loop. In a step of Cycle oldst is the prior snapshot and    *)
(* oldst' the current one; printed' holds the lines of the cycle.           *)

\* The devices that have a line in printed.
PrintedDevs == {printed[i].dev : i \in DOMAIN printed}

\* C17: in every cycle a line is printed for a device only if the device is
\* in both snapshots and none of its four counters decreased.
C17_OnlyValidPrinted ==
    [][pc' = "loop" =>
        \A d \in PrintedDevs' :
            /\ d \in DOMAIN oldst /\ d \in DOMAIN oldst'
            /\ oldst[d].RBytes <= oldst'[d].RBytes
            /\ oldst[d].TBytes <= oldst'[d].TBytes
            /\ oldst[d].RPackets <= oldst'[d].RPackets
            /\ oldst[d].TPackets <= oldst'[d].TPackets]_vars

\* After the first cycle: a device of the list received more bytes than
\* before while another of its counters went down, and has no line.
C17_Witness ==
    /\ pc = "loop" /\ now = duration
    /\ \E i \in DOMAIN keys :
        /\ keys[i] \in DOMAIN InitialStats /\ keys[i] \in DOMAIN oldst
        /\ InitialStats[keys[i]].RBytes < oldst[keys[i]].RBytes
        /\ InitialStats[keys[i]].TBytes > oldst[keys[i]].TBytes
        /\ keys[i] \notin PrintedDevs

\* C19: a step in which Fill fails, at the start of processLoop or in the
\* loop, ends the program and leaves the snapshot, the deltas, the device
\* list and the printed lines as they were; when the first Fill fails the
\* program never gets past it; nothing happens after the program has ended.
C19_FillFailureIsFatal ==
    [][/\ pc # "fatal"
       /\ err' \in {"initial filling", "refilling"}
          => /\ pc' = "fatal"
             /\ UNCHANGED <<oldst, dt, keys, printed>>
       /\ (env.firstErr /\ pc = "processLoop")
          => pc' = "fatal" /\ err' = "initial filling"]_vars

\* Fill failed in the second cycle; the lines of the first are the last
\* ones printed.
C19_Witness ==
    /\ pc = "fatal" /\ err = "refilling"
    /\ now = 2 * duration
    /\ printed # <<>>
    /\ \A d \in DOMAIN oldst : oldst[d].When = duration

\* The first Fill failed.
C19_WitnessStartup ==
    /\ pc = "fatal" /\ err = "initial filling"
    /\ oldst = <<>> /\ keys = <<>> /\ printed = <<>>

\* In a step of the loop: a counter of d is lower in the current snapshot
\* than in the prior one.
Decreased(d) ==
    /\ d \in DOMAIN oldst /\ d \in DOMAIN oldst'
    /\ \/ oldst'[d].RBytes < oldst[d].RBytes
       \/ oldst'[d].TBytes < oldst[d].TBytes
       \/ oldst'[d].RPackets < oldst[d].RPackets
       \/ oldst'[d].TPackets < oldst[d].TPackets

\* In a step of the loop: the current snapshot has d with received bytes,
\* and with -z unset the bytes of d moved since the prior snapshot.
HasTraffic(d) ==
    /\ d \in DOMAIN oldst' /\ oldst'[d].RBytes # 0
    /\ (d \in DOMAIN oldst /\ ~cmd.z)
       => \/ oldst'[d].RBytes # oldst[d].RBytes
          \/ oldst'[d].TBytes # oldst[d].TBytes

\* d is a device the loop reports on: named by the list of an invocation
\* with tokens, and neither a filtered loopback nor excluded.
Watched(d) ==
    /\ Len(args) > 0 => d \in Range(keys)
    /\ incLo \/ d \notin netinfo.loopbacks
    /\ d \notin Range(exlist)

\* C21 as stated: a watched device without a line in one cycle has a line in
\* the next cycle whose snapshot has it with traffic and no decreased
\* counter.
C21_Original ==
    [][(pc = "loop" /\ pc' = "loop") =>
        \A d \in DOMAIN oldst' :
            (/\ Watched(d) /\ d \notin PrintedDevs
             /\ ~Decreased(d) /\ HasTraffic(d))
            => d \in PrintedDevs']_vars

\* C21: the only error a step of the loop ends in is that of a failed Fill,
\* and in every cycle every watched device that is in the prior and in the
\* current snapshot, with traffic and no decreased counter, has a line,
\* whether or not it had one in the cycle before.
C21_SkippedForOneCycle ==
    [][/\ (pc \in {"resolved", "loop"} /\ pc' = "fatal") => err' = "refilling"
       /\ pc' = "loop" =>
            \A d \in DOMAIN oldst \cap DOMAIN oldst' :
                (Watched(d) /\ ~Decreased(d) /\ HasTraffic(d))
                => d \in PrintedDevs']_vars

\* After the second cycle: a device has a line, and the counters it had in
\* the first cycle, which are those of now less its delta, show that its
\* received bytes had gone down in the first cycle, where it had no line.
C21_Witness ==
    /\ pc = "loop" /\ now = 2 * duration
    /\ \E d \in PrintedDevs :
        /\ d \in DOMAIN InitialStats /\ d \in DOMAIN dt
        /\ oldst[d].RBytes - dt[d].RBytes < InitialStats[d].RBytes

\* C22: with tokens the list of every cycle is the set resolved from the
\* snapshot of startup, and only its devices have lines; without tokens the
\* list of a cycle is the devices that are in the prior and in the current
\* snapshot with received bytes and no decreased counter, and each of them
\* that is watched and has traffic has a line, also when the snapshot of
\* startup did not have it.
C22_FixedOrRecomputed ==
    [][pc' = "loop" =>
        IF Len(args) > 0
        THEN /\ pc = "resolved" => Range(keys) = FinalSet
             /\ keys' = keys
             /\ PrintedDevs' \subseteq Range(keys)
        ELSE /\ Range(keys') =
                    {d \in DOMAIN oldst \cap DOMAIN oldst' :
                        oldst'[d].RBytes # 0 /\ ~Decreased(d)}
             /\ \A d \in Range(keys') :
                    (Watched(d) /\ HasTraffic(d)) => d \in PrintedDevs']_vars

\* After the second cycle of an invocation with a glob token: a device the
\* token matches came up after startup, has a valid delta with traffic, and
\* has no line.
C22_Witness ==
    /\ pc = "loop" /\ now = 2 * duration
    /\ \E i \in DOMAIN args : \E d \in DOMAIN dt :
        /\ Glob(args[i], d)
        /\ d \notin DOMAIN InitialStats
        /\ dt[d].RBytes # 0
        /\ d \notin PrintedDevs

\* After the second cycle of an invocation without tokens: a device that
\* came up after startup has a line.
C22_WitnessRecomputed ==
    /\ pc = "loop" /\ now = 2 * duration /\ Len(args) = 0
    /\ \E d \in PrintedDevs : d \notin DOMAIN InitialStats

\* C23: with -P every point-to-point device of the interface directory is
\* in the exclude list; none is in the device list of startup and none has
\* a line in any cycle, with or without tokens.
C23_PointToPointExcluded ==
    (cmd.P /\ HasKeys)
    => \A d \in netinfo.pointtopoint :
        /\ d \in Range(exlist)
        /\ pc \in {"resolved", "exit"} => d \notin Range(keys)
        /\ d \notin PrintedDevs

\* With -P, in a cycle: a point-to-point device has a valid delta with
\* traffic and no line, while another device has one.
C23_Witness ==
    /\ cmd.P /\ pc = "loop"
    /\ \E d \in netinfo.pointtopoint :
        /\ d \in DOMAIN dt /\ dt[d].RBytes # 0
        /\ d \notin PrintedDevs
    /\ PrintedDevs # {}

\* The same for an invocation with a token that matches the point-to-point
\* device.
C23_WitnessToken ==
    /\ C23_Witness
    /\ \E i \in DOMAIN args : \E d \in netinfo.pointtopoint :
            Glob(args[i], d)

\* C25: in every cycle the prior snapshot is the one of the cycle before
\* and is replaced by the one just taken, whatever was printed or skipped:
\* every record of the new base is of the instant of this cycle, and every
\* delta is the difference to the record of the old base, over the time of
\* one cycle.
C25_BaseIsPreviousSnapshot ==
    [][pc' = "loop" =>
        /\ now' = now + duration
        /\ \A d \in DOMAIN oldst : oldst[d].When = now
        /\ \A d \in DOMAIN oldst' : oldst'[d].When = now'
        /\ \A d \in DOMAIN dt' :
            /\ d \in DOMAIN oldst /\ d \in DOMAIN oldst'
            /\ dt'[d].Delta = duration /\ dt'[d].When = now'
            /\ \A f \in {"RBytes", "TBytes", "RPackets", "TPackets"} :
                  dt'[d][f] = oldst'[d][f] - oldst[d][f]
        /\ \A i \in DOMAIN printed' : printed'[i].delta.Delta = duration]_vars

\* After the second cycle: the received bytes of a device had gone down in
\* the first cycle, which gave no delta for it, and its delta of the second
\* cycle is over one cycle, from the record of the first cycle.
C25_Witness ==
    /\ pc = "loop" /\ now = 2 * duration
    /\ \E d \in DOMAIN dt \cap DOMAIN InitialStats :
        /\ oldst[d].RBytes - dt[d].RBytes < InitialStats[d].RBytes
        /\ oldst[d].RBytes >= InitialStats[d].RBytes
        /\ dt[d].Delta = duration
        /\ oldst[d].When = now

\* C26: with at least one device token incLo is true, a loopback device
\* that a token resolves to and that is not excluded is in the device list,
\* and it has a line in every cycle in which it has a valid delta with
\* traffic; with no token and without -l incLo is false, the list of startup
\* has no loopback device and no loopback device has a line in any cycle.
C26_LoopbackFilterOnlyWithoutTokens ==
    /\ (HasKeys /\ Len(args) > 0) =>
          /\ incLo
          /\ pc \in {"resolved", "loop", "exit"} =>
                \A d \in netinfo.loopbacks :
                    (/\ \E i \in DOMAIN args : d \in Resolution(args[i])
                     /\ d \notin Range(exlist))
                    => /\ d \in Range(keys)
                       /\ (/\ pc = "loop" /\ d \in DOMAIN dt
                           /\ dt[d].RBytes # 0 \/ dt[d].TBytes # 0)
                          => d \in PrintedDevs
    /\ (HasKeys /\ Len(args) = 0 /\ ~cmd.l) =>
          /\ ~incLo
          /\ pc \in {"resolved", "exit"} =>
                Range(keys) \cap netinfo.loopbacks = {}
          /\ PrintedDevs \cap netinfo.loopbacks = {}

\* Without -l, in a cycle: a loopback device named by a token has a line.
C26_Witness ==
    /\ pc = "loop" /\ ~cmd.l /\ Len(args) > 0
    /\ \E d \in netinfo.loopbacks \cap PrintedDevs :
            \E i \in DOMAIN args : args[i] = d

\* Without tokens and without -l, in a cycle: a loopback device has a valid
\* delta with traffic and no line, while another device has one.
C26_WitnessEverything ==
    /\ pc = "loop" /\ ~cmd.l /\ Len(args) = 0
    /\ \E d \in netinfo.loopbacks \cap DOMAIN dt :
            dt[d].RBytes # 0 /\ d \notin PrintedDevs
    /\ PrintedDevs # {}

\* C27: every device that has a line in a cycle has received bytes in the
\* snapshot of that cycle, whatever the tokens and -z; and without -z its
\* delta has received or transmitted bytes.
C27_InactiveNeverReported ==
    \A d \in PrintedDevs :
        /\ d \in DOMAIN oldst /\ oldst[d].RBytes # 0
        /\ d \in DOMAIN dt
        /\ ~cmd.z => dt[d].RBytes # 0 \/ dt[d].TBytes # 0

\* With -z and a token that names the device, in the first cycle: the
\* device has no received bytes, no counter of it went down, its
\* transmitted bytes went up, and it has no line.
C27_Witness ==
    /\ pc = "loop" /\ now = duration /\ cmd.z
    /\ \E d \in Range(keys) \cap DOMAIN oldst \cap DOMAIN InitialStats :
        /\ \E i \in DOMAIN args : args[i] = d
        /\ oldst[d].RBytes = 0
        /\ oldst[d].TBytes > InitialStats[d].TBytes
        /\ oldst[d].RPackets >= InitialStats[d].RPackets
        /\ oldst[d].TPackets >= InitialStats[d].TPackets
        /\ d \notin PrintedDevs

\* Without -z, in a cycle: a device of the list has a valid delta of no
\* bytes and no line.
C27_WitnessIdle ==
    /\ pc = "loop" /\ ~cmd.z
    /\ \E d \in Range(keys) \cap DOMAIN dt :
        /\ dt[d].RBytes = 0 /\ dt[d].TBytes = 0
        /\ d \notin Range(exlist)
        /\ incLo \/ d \notin netinfo.loopbacks
        /\ d \notin PrintedDevs

-----------------------------------------------------------------------------
(* The trailing argument of the command line. *)

Numerals == <<"1", "2", "3", "4">>

\* The last argument of the command line is the numeral of n.
TrailingIs(n) ==
    Len(cmd.argv) > 0 /\ cmd.argv[Len(cmd.argv)] = Numerals[n]

\* C20: once main is past its arguments, with the numeral of n > 0 as the
\* last argument: when -d was given with a value other than n seconds the
\* program has ended with the error about -d and a trailing argument;
\* otherwise the argument is taken off the list and the interval is n
\* seconds.
C20_TrailingSeconds ==
    \A n \in DOMAIN Numerals :
        (pc # "main" /\ ~(cmd.R /\ cmd.z) /\ TrailingIs(n))
        => IF cmd.dGiven /\ cmd.d # n
           THEN pc = "fatal" /\ err = "both -d and seconds"
           ELSE /\ args = SubSeq(cmd.argv, 1, Len(cmd.argv) - 1)
                /\ duration = n

-----------------------------------------------------------------------------
(* Delta applied to every pair of counter records within the bounds. *)

Whens == 0..MaxWhen

DevStats == [When : Whens, RBytes : Counters, TBytes : Counters,
             RPackets : Counters, TPackets : Counters]

Idle ==
    /\ pc = "idle" /\ err = "" /\ cmd = <<>> /\ env = <<>> /\ args = <<>>
    /\ duration = 1 /\ incLo = FALSE /\ exlist = <<>> /\ netinfo = <<>>
    /\ oldst = <<>> /\ dt = <<>> /\ keys = <<>> /\ trace = <<>>
    /\ printed = <<>> /\ now = 0

InitDelta ==
    /\ Idle
    /\ call \in [op : {"Delta"}, oldst : DevStats, newst : DevStats]
    /\ ret = <<>>

CallDelta ==
    /\ call.op = "Delta" /\ ret = <<>>
    /\ ret' = <<Delta(call.oldst, call.newst)>>
    /\ UNCHANGED <<call, progvars>>

\* What processLoop does with a delta of a device of its list: genDeltas
\* keeps it when the device has received bytes and Delta said good, and the
\* loop, without -z, passes it to printDelta unless it shows no bytes.
CallPrintDelta ==
    /\ call.op = "Delta" /\ ret # <<>> /\ printed = <<>>
    /\ call.newst.RBytes # 0
    /\ ret[1][2]
    /\ ~(ret[1][1].RBytes = 0 /\ ret[1][1].TBytes = 0)
    /\ printed' = <<printDelta("eth0", ret[1][1])>>
    /\ UNCHANGED <<pc, err, cmd, env, args, duration, incLo, exlist, netinfo,
                   oldst, dt, keys, trace, now, call, ret>>

NextDelta == CallDelta \/ CallPrintDelta

SpecDelta == InitDelta /\ [][NextDelta]_vars

CounterFields == {"RBytes", "TBytes", "RPackets", "TPackets"}

DeltaDone == call.op = "Delta" /\ ret # <<>>

\* C1: when each of the four counters of current is >= that of prior, Delta
\* returns good = true and each delta field is current - prior exactly.
C1_DeltaExact ==
    (DeltaDone /\ \A f \in CounterFields : call.newst[f] >= call.oldst[f])
    => /\ ret[1][2] = TRUE
       /\ \A f \in CounterFields :
             ret[1][1][f] = call.newst[f] - call.oldst[f]

C1_Witness ==
    /\ DeltaDone
    /\ \A f \in CounterFields : call.newst[f] >= call.oldst[f]
    /\ call.oldst.RBytes = 0 /\ call.newst.RBytes = 2
    /\ call.oldst.TPackets = 1 /\ call.newst.TPackets = 2
    /\ call.oldst.TBytes = call.newst.TBytes
    /\ ret[1][2] = TRUE /\ ret[1][1].RBytes = 2 /\ ret[1][1].TPackets = 1

\* C2: when at least one of the four counters has current < prior, Delta
\* returns good = false, whichever field decreased and whatever the others
\* are.
C2_DecreaseInvalid ==
    (DeltaDone /\ \E f \in CounterFields : call.newst[f] < call.oldst[f])
    => ret[1][2] = FALSE

\* The first field decreased, the three later ones did not.
C2_Witness ==
    /\ DeltaDone
    /\ call.newst.RBytes < call.oldst.RBytes
    /\ \A f \in CounterFields \ {"RBytes"} : call.newst[f] > call.oldst[f]
    /\ ret[1][2] = FALSE

\* C24: for every pair of records the elapsed time Delta returns is the When
\* of current less that of prior and its When is that of current; a field
\* whose counter decreased is 0, every other field is current less prior,
\* and the flag is false exactly when some counter decreased.
C24_DecreaseTouchesOneField ==
    DeltaDone =>
        /\ ret[1][1].Delta = call.newst.When - call.oldst.When
        /\ ret[1][1].When = call.newst.When
        /\ \A f \in CounterFields :
              ret[1][1][f] = IF call.newst[f] < call.oldst[f] THEN 0
                             ELSE call.newst[f] - call.oldst[f]
        /\ ret[1][2] <=> \A f \in CounterFields :
                            call.newst[f] >= call.oldst[f]

\* The second counter decreased; the first, a later one and the time went
\* up and are in the result.
C24_Witness ==
    /\ DeltaDone
    /\ call.oldst.When = 0 /\ call.newst.When = 1
    /\ call.newst.TBytes < call.oldst.TBytes
    /\ call.newst.RBytes > call.oldst.RBytes
    /\ call.newst.TPackets > call.oldst.TPackets
    /\ ret[1][2] = FALSE
    /\ ret[1][1].Delta = 1 /\ ret[1][1].When = 1
    /\ ret[1][1].TBytes = 0
    /\ ret[1][1].RBytes = call.newst.RBytes - call.oldst.RBytes
    /\ ret[1][1].TPackets = call.newst.TPackets - call.oldst.TPackets

-----------------------------------------------------------------------------
(* genDeltas applied to every pair of snapshots within the bounds. *)

DiffDevs == {"eth0", "lo"}

PacketCounts == {0, 1}

\* The records of one snapshot share the instant of the read.
StatsAt(when) ==
    UNION {[D -> [When : {when}, RBytes : Counters, TBytes : PacketCounts,
                  RPackets : PacketCounts, TPackets : PacketCounts]] :
           D \in SUBSET DiffDevs}

InitDiff ==
    /\ Idle
    /\ call \in [op : {"genDeltas"}, oldinfo : StatsAt(0),
                  newinfo : StatsAt(1)]
    /\ ret = <<>>

CallGenDeltas ==
    /\ call.op = "genDeltas" /\ ret = <<>>
    /\ ret' = <<genDeltas(call.oldinfo, call.newinfo)>>
    /\ UNCHANGED <<call, progvars>>

NextDiff == CallGenDeltas

SpecDiff == InitDiff /\ [][NextDiff]_vars

DiffDone == call.op = "genDeltas" /\ ret # <<>>

NonDecreasing(o, n) == \A f \in CounterFields : n[f] >= o[f]

\* C3: every device of the map genDeltas returns is in both snapshots and
\* none of its counters decreased.
C3_OnlyValidInBoth ==
    DiffDone =>
        \A d \in DOMAIN ret[1] :
            /\ d \in DOMAIN call.oldinfo
            /\ d \in DOMAIN call.newinfo
            /\ NonDecreasing(call.oldinfo[d], call.newinfo[d])

\* eth0 is kept; lo is new, gone, or has a decreased counter.
C3_Witness ==
    /\ DiffDone
    /\ DOMAIN ret[1] = {"eth0"}
    /\ \/ "lo" \in DOMAIN call.newinfo \ DOMAIN call.oldinfo
       \/ "lo" \in DOMAIN call.oldinfo \ DOMAIN call.newinfo
       \/ /\ "lo" \in DOMAIN call.oldinfo \cap DOMAIN call.newinfo
          /\ call.newinfo["lo"].RBytes > call.oldinfo["lo"].RBytes
          /\ call.newinfo["lo"].TPackets < call.oldinfo["lo"].TPackets

\* C4 as stated: every device in both snapshots with a valid delta is in the
\* result, also when its current rx_bytes is 0.
C4_Original ==
    DiffDone =>
        \A d \in DOMAIN call.oldinfo \cap DOMAIN call.newinfo :
            NonDecreasing(call.oldinfo[d], call.newinfo[d])
            => d \in DOMAIN ret[1]

\* C4 amended: every device in both snapshots with a valid delta and a
\* nonzero current rx_bytes is in the result, with that delta; a device whose
\* current rx_bytes is 0 is never in the result.
C4_ActiveValidIncluded ==
    DiffDone =>
        /\ \A d \in DOMAIN call.oldinfo \cap DOMAIN call.newinfo :
              (NonDecreasing(call.oldinfo[d], call.newinfo[d])
               /\ call.newinfo[d].RBytes # 0)
              => /\ d \in DOMAIN ret[1]
                 /\ \A f \in CounterFields :
                       ret[1][d][f] = call.newinfo[d][f] - call.oldinfo[d][f]
        /\ \A d \in DOMAIN call.newinfo :
              call.newinfo[d].RBytes = 0 => d \notin DOMAIN ret[1]

\* eth0 is active and kept; lo is in both snapshots with nothing decreased
\* and rx_bytes 0, and is left out.
C4_Witness ==
    /\ DiffDone
    /\ DOMAIN call.oldinfo = DiffDevs /\ DOMAIN call.newinfo = DiffDevs
    /\ NonDecreasing(call.oldinfo["lo"], call.newinfo["lo"])
    /\ call.newinfo["lo"].RBytes = 0 /\ call.newinfo["lo"].TBytes = 1
    /\ DOMAIN ret[1] = {"eth0"}

-----------------------------------------------------------------------------
(* The matchers applied on their own to patterns, device lists and IP maps. *)

GlobPatterns == {"eth*", "*", "*0", "e*0", "*th*", "eth0", "", "**", "w*n*",
                 "*h1", "e*h*1", "eth"}

GlobCalls ==
    [op : {"globMatch"}, devpat : GlobPatterns,
     netdevs : {SortStrings(D) : D \in SUBSET {"eth0", "eth1", "wlan0"}},
     tgt : {{}, {"lo"}}]

\* The addresses of the IP maps, as octets.
TestAddrs ==
    ("10.0.0.5" :> <<10, 0, 0, 5>>) @@ ("192.168.1.1" :> <<192, 168, 1, 1>>)
    @@ ("10.128.0.7" :> <<10, 128, 0, 7>>) @@ ("10.0.0.6" :> <<10, 0, 0, 6>>)
    @@ ("128.100.3.7" :> <<128, 100, 3, 7>>)
    @@ ("128.100.5.9" :> <<128, 100, 5, 9>>)
    @@ ("192.168.101.4" :> <<192, 168, 101, 4>>)

TestDevices ==
    ("10.0.0.5" :> <<"eth0">>) @@ ("192.168.1.1" :> <<"eth1">>)
    @@ ("10.128.0.7" :> <<"eth0", "eth2">>) @@ ("10.0.0.6" :> <<"ppp0">>)
    @@ ("128.100.3.7" :> <<"eth3">>) @@ ("128.100.5.9" :> <<"eth4">>)
    @@ ("192.168.101.4" :> <<"eth5", "eth3">>)

IPMaps == {[k \in K |-> TestDevices[k]] : K \in SUBSET DOMAIN TestDevices}

\* The patterns that are CIDR blocks, as (address octets, prefix length).
TestBlocks ==
    ("10.0.0.0/8" :> <<<<10, 0, 0, 0>>, 8>>)
    @@ ("10.0.0.5/8" :> <<<<10, 0, 0, 5>>, 8>>)
    @@ ("10.0.0.0/9" :> <<<<10, 0, 0, 0>>, 9>>)
    @@ ("10.0.0.4/30" :> <<<<10, 0, 0, 4>>, 30>>)
    @@ ("10.0.0.6/31" :> <<<<10, 0, 0, 6>>, 31>>)
    @@ ("192.168.1.1/32" :> <<<<192, 168, 1, 1>>, 32>>)
    @@ ("192.168.0.0/16" :> <<<<192, 168, 0, 0>>, 16>>)
    @@ ("128.0.0.0/1" :> <<<<128, 0, 0, 0>>, 1>>)
    @@ ("0.0.0.0/0" :> <<<<0, 0, 0, 0>>, 0>>)
    @@ ("172.16.0.0/12" :> <<<<172, 16, 0, 0>>, 12>>)
    @@ ("128.100.3.0/24" :> <<<<128, 100, 3, 0>>, 24>>)
    @@ ("128.100.5.0/24" :> <<<<128, 100, 5, 0>>, 24>>)
    @@ ("192.168.101.0/24" :> <<<<192, 168, 101, 0>>, 24>>)
    @@ ("192.168.102.0/24" :> <<<<192, 168, 102, 0>>, 24>>)

CidrPatterns ==
    DOMAIN TestBlocks \cup {"10.0.0.0/33", "10.0.0.0", "10.0.0/8", "10.0.0.0/",
                            "10.*", "net3"}

CidrCalls ==
    [op : {"cidrIPMatch"}, devpat : CidrPatterns, ipmap : IPMaps,
     tgt : {{}, {"lo"}}]

\* The compiled-in tables, and tables in which the multi-name blue names
\* net7, which cslabNetNames does not have.
NetNameTables ==
    {[netnames |-> cslabNetNames,
      multinames |-> [cslabMultiNames EXCEPT !["blue"] = b]] :
        b \in {<<"net3", "net5">>, <<"net3", "net7">>, <<"net7", "net3">>,
               <<"net3", "net7", "net5">>}}

NetNamesCalls ==
    {[op |-> "matchNetNames", netnames |-> t.netnames,
      multinames |-> t.multinames, devpat |-> p, ipmap |-> m, tgt |-> g] :
        t \in NetNameTables,
        p \in {"blue", "iscsi", "net3", "net5", "me", "nosuch"},
        m \in IPMaps, g \in {{}, {"lo"}}}

InitMatch ==
    /\ Idle
    /\ call \in GlobCalls \cup CidrCalls \cup NetNamesCalls
    /\ ret = <<>>

CallMatchNetNames ==
    /\ call.op = "matchNetNames" /\ ret = <<>>
    /\ ret' = <<matchNetNamesIn(call.netnames, call.multinames, call.devpat,
                                call.ipmap, call.tgt)>>
    /\ UNCHANGED <<call, progvars>>

CallCidrIPMatch ==
    /\ call.op = "cidrIPMatch" /\ ret = <<>>
    /\ ret' = <<cidrIPMatch(call.devpat, call.ipmap, call.tgt)>>
    /\ UNCHANGED <<call, progvars>>

CallGlobMatch ==
    /\ call.op = "globMatch" /\ ret = <<>>
    /\ ret' = <<globMatch(call.devpat, call.netdevs, call.tgt)>>
    /\ UNCHANGED <<call, progvars>>

NextMatch == CallGlobMatch \/ CallCidrIPMatch \/ CallMatchNetNames

SpecMatch == InitMatch /\ [][NextMatch]_vars

\* Whether s is an instance of pattern p, where "*" stands for any string and
\* every other character for itself.
RECURSIVE StarMatch(_, _)
StarMatch(p, s) ==
    IF p = "" THEN s = ""
    ELSE IF Ch(p, 1) = "*"
         THEN \E k \in 0..Len(s) :
                StarMatch(SubSeq(p, 2, Len(p)), SubSeq(s, k + 1, Len(s)))
         ELSE /\ Len(s) > 0
              /\ Ch(s, 1) = Ch(p, 1)
              /\ StarMatch(SubSeq(p, 2, Len(p)), SubSeq(s, 2, Len(s)))

GlobDone == call.op = "globMatch" /\ ret # <<>>

Bit(a, j) == (a[((j - 1) \div 8) + 1] \div (2 ^ (7 - ((j - 1) % 8)))) % 2

\* Address a agrees with the block's address on the bits of the prefix.
InBlock(a, block) == \A j \in 1..block[2] : Bit(a, j) = Bit(block[1], j)

CidrDone == call.op = "cidrIPMatch" /\ ret # <<>>

\* The addresses of the call's IP map that are in the block of its pattern.
CidrHits ==
    {k \in DOMAIN call.ipmap : InBlock(TestAddrs[k], TestBlocks[call.devpat])}

\* C14: for a pattern that is a CIDR block, cidrIPMatch adds the devices of
\* every address of the IP map that lies in the block and of no other
\* address, and returns true exactly when some address lies in the block.
C14_CidrBlock ==
    (CidrDone /\ call.devpat \in DOMAIN TestBlocks) =>
        /\ ret[1][2] = call.tgt \cup
                UNION {Range(call.ipmap[k]) : k \in CidrHits}
        /\ ret[1][1] <=> CidrHits # {}

\* "10.0.0.0/8" against 10.0.0.5 on eth0 and 192.168.1.1 on eth1.
C14_Witness ==
    /\ CidrDone
    /\ call.devpat = "10.0.0.0/8"
    /\ DOMAIN call.ipmap = {"10.0.0.5", "192.168.1.1"}
    /\ call.tgt = {}
    /\ ret[1] = <<TRUE, {"eth0"}>>

NetNamesDone == call.op = "matchNetNames" /\ ret # <<>>

\* The pattern of the call is a multi-name and not a single name.
IsGroup ==
    call.devpat \in DOMAIN call.multinames \ DOMAIN call.netnames

GroupMembers == Range(call.multinames[call.devpat])

\* The addresses of the call's IP map that lie in the block of member m.
MemberHits(m) ==
    {k \in DOMAIN call.ipmap :
        InBlock(TestAddrs[k], TestBlocks[call.netnames[m]])}

\* C15: for a multi-name all of whose members are names of cslabNetNames,
\* matchNetNames returns true exactly when the block of some member contains
\* an address of the IP map, and it adds the devices of the addresses in the
\* block of every member.
C15_GroupIsUnion ==
    (NetNamesDone /\ IsGroup /\ GroupMembers \subseteq DOMAIN call.netnames)
    => /\ ret[1][1] <=> \E m \in GroupMembers : MemberHits(m) # {}
       /\ ret[1][2] = call.tgt \cup
            UNION {Range(call.ipmap[k]) :
                     k \in UNION {MemberHits(m) : m \in GroupMembers}}

\* blue with the compiled-in tables: nothing on net3, eth4 on net5.
C15_Witness ==
    /\ NetNamesDone
    /\ call.devpat = "blue"
    /\ call.multinames = cslabMultiNames
    /\ MemberHits("net3") = {} /\ MemberHits("net5") # {}
    /\ call.tgt = {}
    /\ ret[1] = <<TRUE, {"eth4"}>>

\* blue with the compiled-in tables: both members match.
C15_WitnessBoth ==
    /\ NetNamesDone
    /\ call.devpat = "blue"
    /\ call.multinames = cslabMultiNames
    /\ DOMAIN call.ipmap = {"128.100.3.7", "128.100.5.9"}
    /\ call.tgt = {}
    /\ ret[1] = <<TRUE, {"eth3", "eth4"}>>

\* C16: for a multi-name with a member that cslabNetNames does not have,
\* matchNetNames returns false and leaves the target set as it was.
C16_MalformedGroupAddsNothing ==
    (NetNamesDone /\ IsGroup /\ ~(GroupMembers \subseteq DOMAIN call.netnames))
    => ret[1] = <<FALSE, call.tgt>>

-----------------------------------------------------------------------------
(* Delta and printDelta on snapshots whose instants do not advance.          *)

\* C18: Delta reports a delta whose elapsed time is zero or negative as not
\* good, and no line is printed from such a delta.
C18_NoRateWithoutElapsedTime ==
    /\ (DeltaDone /\ call.newst.When - call.oldst.When <= 0) => ~ret[1][2]
    /\ \A i \in DOMAIN printed : printed[i].delta.Delta > 0

====
